---- MODULE Spec2Model ----
(***************************************************************************)
(* Model of spacetime-schema-tool (src/schema.rs, src/main.rs,             *)
(* src/spacetime_client.rs): the SATS type model, the index-to-name map    *)
(* built by display_schema_pretty, the pattern detectors, format_type,     *)
(* the query views and an invocation of fetch_schema.                      *)
(*                                                                         *)
(* Encoding of the Rust data:                                              *)
(*   OptionalName      <<>> for None {..}, <<s>> for Some { some: s }      *)
(*   Option<T>         <<>> for None, <<v>> for Some(v)                    *)
(*   AlgebraicType     a record with a tag and, for Array / Product / Sum  *)
(*                     / Ref, the field of that name                       *)
(*   Vec<T>            a sequence (index 0 of the code is index 1 here)    *)
(*   HashMap<usize,_>  a function whose DOMAIN is the set of keys; the     *)
(*                     order of its enumeration is chosen by the step that *)
(*                     enumerates it                                       *)
(*   Result<()>        <<>> while running, <<"Ok">> or <<"Err">> at return *)
(*   standard output   the sequence of the lines printed                   *)
(***************************************************************************)
EXTENDS Integers, Sequences, FiniteSets, TLC

VARIABLES typespace, types, alg, type_names, out, stack, pc,
          tables, args, printed, views, result

\* The variables of an invocation of fetch_schema and of its query views.
qvars == <<tables, args, printed, views, result>>

vars == <<typespace, types, alg, type_names, out, stack, pc,
          tables, args, printed, views, result>>

(***************************************************************************)
(* Bounds of the model.                                                    *)
(***************************************************************************)
\* Ref indices and NamedType.ty range over 0..MaxRef.
MaxRef == 1
\* Longest NamedType list of the name-resolver specification.
MaxNamed == 3
\* Most variants of a Sum of the input universe.
MaxVariants == 3
\* Most elements of a Product of the input universe.
MaxElements == 2

(***************************************************************************)
(* Type model (mod sats_types).                                            *)
(***************************************************************************)
NoName == <<>>

SomeName(some) == <<some>>

\* OptionalName::as_option
as_option(name) == name

ScalarTags ==
    {"Bool", "I8", "U8", "I16", "U16", "I32", "U32", "I64", "U64",
     "I128", "U128", "I256", "U256", "F32", "F64", "String"}

Scalar(tag) == [tag |-> tag]

ArrayOf(t) == [tag |-> "Array", Array |-> t]

ProductOf(elements) == [tag |-> "Product", Product |-> [elements |-> elements]]

SumOf(variants) == [tag |-> "Sum", Sum |-> [variants |-> variants]]

RefTo(i) == [tag |-> "Ref", Ref |-> i]

\* Element and Variant have the same shape.
Element(name, t) == [name |-> name, algebraic_type |-> t]

Variant(name, t) == [name |-> name, algebraic_type |-> t]

\* NamedType, with name.name for its name; scope and custom_ordering are
\* read by no code.
NamedType(name, ty) == [name |-> name, ty |-> ty]

\* TypeDef::Product, a typespace entry; it has the shape of
\* AlgebraicType::Product.
TypeDefProduct(elements) == [tag |-> "Product", Product |-> [elements |-> elements]]

Unit == ProductOf(<<>>)

\* AlgebraicType::Product { Product } if Product.elements.is_empty()
IsUnitPayload(t) == t.tag = "Product" /\ Len(t.Product.elements) = 0

\* Vec::contains on the collected variant names.
Contains(names, s) == \E i \in 1..Len(names) : names[i] = s

\* iter().filter_map(|v| v.name.as_option()).collect()
RECURSIVE variant_names_of(_)
variant_names_of(variants) ==
    IF variants = <<>> THEN <<>>
    ELSE as_option(Head(variants).name) \o variant_names_of(Tail(variants))

(***************************************************************************)
(* Pattern detectors.                                                      *)
(***************************************************************************)
\* detect_spacetimedb_type deciding on the field name alone.
detect_spacetimedb_type_by_name(product) ==
    IF Len(product.elements) = 1 /\ as_option(product.elements[1].name) # <<>>
    THEN LET field_name == as_option(product.elements[1].name)[1]
         IN  CASE field_name = "__identity__" -> <<"Identity">>
               [] field_name = "__timestamp_micros_since_unix_epoch__" -> <<"Timestamp">>
               [] field_name = "__time_duration_micros__" -> <<"Duration">>
               [] OTHER -> <<>>
    ELSE <<>>

detect_spacetimedb_type(product) ==
    IF Len(product.elements) = 1
    THEN LET element == product.elements[1]
             field_name == as_option(element.name)
         IN  IF field_name = <<>> THEN <<>>
             ELSE CASE field_name[1] = "__identity__" ->
                         IF element.algebraic_type.tag = "U256"
                         THEN <<"Identity">> ELSE <<>>
                    [] field_name[1] = "__timestamp_micros_since_unix_epoch__" ->
                         IF element.algebraic_type.tag = "I64"
                         THEN <<"Timestamp">> ELSE <<>>
                    [] field_name[1] = "__time_duration_micros__" ->
                         IF element.algebraic_type.tag = "I64"
                         THEN <<"Duration">> ELSE <<>>
                    [] OTHER -> <<>>
    ELSE <<>>

\* detect_spacetimedb_sum_type without the check of the variant count.
detect_spacetimedb_sum_type_any_len(sum) ==
    LET variant_names == variant_names_of(sum.variants)
    IN  IF Contains(variant_names, "Interval") /\ Contains(variant_names, "Time")
        THEN <<"ScheduledAt">> ELSE <<>>

detect_spacetimedb_sum_type(sum) ==
    IF Len(sum.variants) = 2
    THEN LET variant_names == variant_names_of(sum.variants)
         IN  IF Contains(variant_names, "Interval") /\ Contains(variant_names, "Time")
             THEN <<"ScheduledAt">> ELSE <<>>
    ELSE <<>>

\* is_option_type without its second pattern.
is_option_type_names_only(sum) ==
    IF Len(sum.variants) # 2 THEN FALSE
    ELSE LET variant_names == variant_names_of(sum.variants)
         IN  Len(variant_names) = 2 /\ Contains(variant_names, "Some")
             /\ Contains(variant_names, "None")

\* is_option_type whose second pattern asks for a data variant only.
is_option_type_data_only(sum) ==
    IF Len(sum.variants) # 2 THEN FALSE
    ELSE LET variant_names == variant_names_of(sum.variants)
         IN  IF Len(variant_names) = 2 /\ Contains(variant_names, "Some")
                /\ Contains(variant_names, "None")
             THEN TRUE
             ELSE \E i \in 1..Len(sum.variants) :
                      ~IsUnitPayload(sum.variants[i].algebraic_type)

is_option_type(sum) ==
    IF Len(sum.variants) # 2 THEN FALSE
    ELSE LET variant_names == variant_names_of(sum.variants)
             has_some == Contains(variant_names, "Some")
             has_none == Contains(variant_names, "None")
             has_unit_variant ==
                 \E i \in 1..Len(sum.variants) :
                     IsUnitPayload(sum.variants[i].algebraic_type)
             has_data_variant ==
                 \E i \in 1..Len(sum.variants) :
                     ~IsUnitPayload(sum.variants[i].algebraic_type)
         IN  IF Len(variant_names) = 2 /\ has_some /\ has_none THEN TRUE
             ELSE has_unit_variant /\ has_data_variant

\* Least index of a non-empty set of indices: the first hit of a for loop.
FirstOf(S) == CHOOSE i \in S : \A j \in S : i <= j

\* get_option_inner_type returning the data variant's type as it stands.
get_option_inner_type_no_unwrap(sum) ==
    LET named_some == {i \in 1..Len(sum.variants) :
                          as_option(sum.variants[i].name) = <<"Some">>}
        with_data  == {i \in 1..Len(sum.variants) :
                          ~IsUnitPayload(sum.variants[i].algebraic_type)}
    IN  IF named_some # {}
        THEN <<sum.variants[FirstOf(named_some)].algebraic_type>>
        ELSE IF with_data # {}
        THEN <<sum.variants[FirstOf(with_data)].algebraic_type>>
        ELSE <<>>

\* get_option_inner_type without the search for a variant named Some.
get_option_inner_type_by_shape(sum) ==
    LET with_data  == {i \in 1..Len(sum.variants) :
                          ~IsUnitPayload(sum.variants[i].algebraic_type)}
    IN  IF with_data # {}
        THEN LET ty == sum.variants[FirstOf(with_data)].algebraic_type
             IN  IF ty.tag = "Product" /\ Len(ty.Product.elements) = 1
                 THEN <<ty.Product.elements[1].algebraic_type>>
                 ELSE <<ty>>
        ELSE <<>>

get_option_inner_type(sum) ==
    LET named_some == {i \in 1..Len(sum.variants) :
                          as_option(sum.variants[i].name) = <<"Some">>}
        with_data  == {i \in 1..Len(sum.variants) :
                          ~IsUnitPayload(sum.variants[i].algebraic_type)}
    IN  IF named_some # {}
        THEN <<sum.variants[FirstOf(named_some)].algebraic_type>>
        ELSE IF with_data # {}
        THEN LET variant == sum.variants[FirstOf(with_data)]
                 ty == variant.algebraic_type
             IN  IF ty.tag = "Product" /\ Len(ty.Product.elements) = 1
                 THEN <<ty.Product.elements[1].algebraic_type>>
                 ELSE <<ty>>
        ELSE <<>>

(***************************************************************************)
(* Type formatter.                                                         *)
(***************************************************************************)
ScalarToken(tag) ==
    CASE tag = "Bool" -> "bool"
      [] tag = "I8" -> "i8"
      [] tag = "U8" -> "u8"
      [] tag = "I16" -> "i16"
      [] tag = "U16" -> "u16"
      [] tag = "I32" -> "i32"
      [] tag = "U32" -> "u32"
      [] tag = "I64" -> "i64"
      [] tag = "U64" -> "u64"
      [] tag = "I128" -> "i128"
      [] tag = "U128" -> "u128"
      [] tag = "I256" -> "i256"
      [] tag = "U256" -> "u256"
      [] tag = "F32" -> "f32"
      [] tag = "F64" -> "f64"
      [] tag = "String" -> "String"

\* types.join(", ")
RECURSIVE Join(_, _)
Join(strs, sep) ==
    IF strs = <<>> THEN ""
    ELSE IF Len(strs) = 1 THEN strs[1]
    ELSE strs[1] \o sep \o Join(Tail(strs), sep)

\* Product.elements.iter().all(|e| e.name.as_option().is_none())
AllUnnamed(elements) ==
    \A i \in 1..Len(elements) : as_option(elements[i].name) = <<>>

RECURSIVE format_type(_, _)

\* format_type, the arm AlgebraicType::Ref { Ref }.
format_type_Ref(Ref, names) ==
    IF Ref \in DOMAIN names
    THEN names[Ref]
    ELSE "Type_" \o ToString(Ref)

\* The Sum arm with the Option check ahead of the ScheduledAt check.
format_type_Sum_option_first(Sum, names) ==
    IF is_option_type(Sum)
    THEN LET inner_type == get_option_inner_type(Sum)
         IN  IF inner_type # <<>>
             THEN "Option<" \o format_type(inner_type[1], names) \o ">"
             ELSE "Option<?>"
    ELSE LET stdb_type == detect_spacetimedb_sum_type(Sum)
         IN  IF stdb_type # <<>> THEN stdb_type[1]
             ELSE "Sum(" \o ToString(Len(Sum.variants)) \o " variants)"

\* format_type, the arm AlgebraicType::Sum { Sum }.
format_type_Sum(Sum, names) ==
    LET stdb_type == detect_spacetimedb_sum_type(Sum)
    IN  IF stdb_type # <<>> THEN stdb_type[1]
        ELSE IF is_option_type(Sum)
        THEN LET inner_type == get_option_inner_type(Sum)
             IN  IF inner_type # <<>>
                 THEN "Option<" \o format_type(inner_type[1], names) \o ">"
                 ELSE "Option<?>"
        ELSE "Sum(" \o ToString(Len(Sum.variants)) \o " variants)"

\* The Product arm taking any unnamed element for a tuple.
format_type_Product_any_unnamed(Product, names) ==
    LET stdb_type == detect_spacetimedb_type(Product)
    IN  IF stdb_type # <<>> THEN stdb_type[1]
        ELSE IF Len(Product.elements) = 0 THEN "()"
        ELSE IF \E i \in 1..Len(Product.elements) :
                   as_option(Product.elements[i].name) = <<>>
        THEN "(" \o Join([i \in 1..Len(Product.elements) |->
                             format_type(Product.elements[i].algebraic_type, names)],
                         ", ") \o ")"
        ELSE "Product(" \o ToString(Len(Product.elements)) \o " fields)"

\* format_type, the arm AlgebraicType::Product { Product }.
format_type_Product(Product, names) ==
    LET stdb_type == detect_spacetimedb_type(Product)
    IN  IF stdb_type # <<>> THEN stdb_type[1]
        ELSE IF Len(Product.elements) = 0 THEN "()"
        ELSE IF AllUnnamed(Product.elements)
        THEN "(" \o Join([i \in 1..Len(Product.elements) |->
                             format_type(Product.elements[i].algebraic_type, names)],
                         ", ") \o ")"
        ELSE "Product(" \o ToString(Len(Product.elements)) \o " fields)"

format_type(alg_type, names) ==
    CASE alg_type.tag \in ScalarTags -> ScalarToken(alg_type.tag)
      [] alg_type.tag = "Array" ->
            "Vec<" \o format_type(alg_type.Array, names) \o ">"
      [] alg_type.tag = "Ref" -> format_type_Ref(alg_type.Ref, names)
      [] alg_type.tag = "Sum" -> format_type_Sum(alg_type.Sum, names)
      [] alg_type.tag = "Product" -> format_type_Product(alg_type.Product, names)

(***************************************************************************)
(* Name resolver: the loop at the head of display_schema_pretty.           *)
(***************************************************************************)
\* An insert that keeps the value a key already has.
InsertIfAbsent(map, key, value) ==
    [k \in DOMAIN map \cup {key} |-> IF k \in DOMAIN map THEN map[k] ELSE value]

\* HashMap::insert: a later insert of the same key replaces the value.
Insert(map, key, value) ==
    [k \in DOMAIN map \cup {key} |-> IF k = key THEN value ELSE map[k]]

EmptyMap == [k \in {} |-> ""]

RECURSIVE extract_type_names(_, _)
extract_type_names(named_types, map) ==
    IF named_types = <<>> THEN map
    ELSE extract_type_names(Tail(named_types),
                            Insert(map, Head(named_types).ty, Head(named_types).name))

(***************************************************************************)
(* The formatter as it runs: one frame per activation of format_type.      *)
(* todo holds the arguments of the recursive calls the activation has      *)
(* still to make, rets the strings the calls made so far have returned.    *)
(***************************************************************************)
\* format_type_calls descending into the typespace entry a Ref points to.
format_type_calls_through_ref(alg_type) ==
    CASE alg_type.tag = "Array" -> <<alg_type.Array>>
      [] alg_type.tag = "Ref" ->
            IF alg_type.Ref < Len(typespace)
            THEN <<typespace[alg_type.Ref + 1]>>
            ELSE <<>>
      [] alg_type.tag = "Sum" ->
            IF detect_spacetimedb_sum_type(alg_type.Sum) = <<>>
               /\ is_option_type(alg_type.Sum)
            THEN get_option_inner_type(alg_type.Sum)
            ELSE <<>>
      [] alg_type.tag = "Product" ->
            IF detect_spacetimedb_type(alg_type.Product) = <<>>
               /\ Len(alg_type.Product.elements) # 0
               /\ AllUnnamed(alg_type.Product.elements)
            THEN [i \in 1..Len(alg_type.Product.elements) |->
                     alg_type.Product.elements[i].algebraic_type]
            ELSE <<>>
      [] OTHER -> <<>>

\* The arguments of the recursive calls format_type(alg_type, _) makes, in order.
format_type_calls(alg_type) ==
    CASE alg_type.tag = "Array" -> <<alg_type.Array>>
      [] alg_type.tag = "Sum" ->
            IF detect_spacetimedb_sum_type(alg_type.Sum) = <<>>
               /\ is_option_type(alg_type.Sum)
            THEN get_option_inner_type(alg_type.Sum)
            ELSE <<>>
      [] alg_type.tag = "Product" ->
            IF detect_spacetimedb_type(alg_type.Product) = <<>>
               /\ Len(alg_type.Product.elements) # 0
               /\ AllUnnamed(alg_type.Product.elements)
            THEN [i \in 1..Len(alg_type.Product.elements) |->
                     alg_type.Product.elements[i].algebraic_type]
            ELSE <<>>
      [] OTHER -> <<>>

\* What the activation returns once its recursive calls have returned rets.
format_type_result(alg_type, rets, names) ==
    IF rets = <<>> THEN format_type(alg_type, names)
    ELSE CASE alg_type.tag = "Array" -> "Vec<" \o rets[1] \o ">"
           [] alg_type.tag = "Sum" -> "Option<" \o rets[1] \o ">"
           [] alg_type.tag = "Product" -> "(" \o Join(rets, ", ") \o ")"
           [] OTHER -> format_type(alg_type, names)

Frame(alg_type) ==
    [t |-> alg_type, todo |-> format_type_calls(alg_type), rets |-> <<>>]

(***************************************************************************)
(* Input universe.                                                         *)
(***************************************************************************)
I64 == Scalar("I64")

U256 == Scalar("U256")

U64 == Scalar("U64")

Refs == {RefTo(i) : i \in 0..MaxRef}

Leaves == {I64, U256, U64, Unit} \cup Refs

OptionI64 == SumOf(<<Variant(SomeName("Some"), I64), Variant(SomeName("None"), Unit)>>)

PairI64Ref == ProductOf(<<Element(NoName, I64), Element(NoName, RefTo(0))>>)

\* Payloads of the two-variant Sums: unit, scalars, references, an array,
\* one-element Products (unnamed, named, an idiom), a pair and a nested Sum.
Payloads ==
    {Unit, I64, ArrayOf(I64), PairI64Ref, OptionI64,
     ProductOf(<<Element(NoName, I64)>>),
     ProductOf(<<Element(SomeName("id"), I64)>>),
     ProductOf(<<Element(SomeName("__identity__"), U256)>>)} \cup Refs

VariantNames ==
    {NoName, SomeName("Some"), SomeName("None"), SomeName("Interval"),
     SomeName("Time"), SomeName("Start"), SomeName("End")}

Variants2 == {Variant(n, t) : n \in VariantNames, t \in Payloads}

\* Variants of the Sums that do not have two variants.
SmallVariants ==
    {Variant(SomeName("Interval"), Unit), Variant(SomeName("Time"), I64),
     Variant(SomeName("Some"), I64), Variant(SomeName("None"), Unit),
     Variant(NoName, Unit), Variant(NoName, I64)}

Sums ==
    {SumOf(v) : v \in [1..2 -> Variants2]}
    \cup UNION {{SumOf(v) : v \in [1..n -> SmallVariants]} : n \in (0..MaxVariants) \ {2}}

FieldNames ==
    {NoName, SomeName("id"), SomeName("__identity__"),
     SomeName("__timestamp_micros_since_unix_epoch__"),
     SomeName("__time_duration_micros__")}

Products1 ==
    {ProductOf(<<Element(n, t)>>) : n \in FieldNames, t \in Leaves \cup {ArrayOf(I64)}}

\* Elements of the Products of two or more elements.
SmallElements ==
    {Element(n, t) : n \in {NoName, SomeName("id"), SomeName("__identity__")},
                     t \in {I64, U256, RefTo(0), ArrayOf(I64), OptionI64, PairI64Ref}}

ProductsN ==
    UNION {{ProductOf(e) : e \in [1..n -> SmallElements]} : n \in 2..MaxElements}

Arrays == {ArrayOf(t) : t \in Leaves \cup {ArrayOf(I64), OptionI64, PairI64Ref}}

AlgebraicTypes == Leaves \cup Arrays \cup Products1 \cup ProductsN \cup Sums

TypeNameStrings == {"User", "Item"}

\* NamedType lists of the formatter specifications: index 0 unnamed, named
\* once, named twice.
FormatNamedTypes ==
    {<<>>,
     <<NamedType("User", 0)>>,
     <<NamedType("User", 0), NamedType("Item", 0)>>}

\* Every NamedType list of up to MaxNamed entries.
AllNamedTypes ==
    UNION {[1..n -> {NamedType(s, i) : s \in TypeNameStrings, i \in 0..MaxRef}]
              : n \in 0..MaxNamed}

\* Typespaces: empty; entry 0 a tuple holding Ref(0); entries 0 and 1
\* referring to each other.
Typespaces ==
    {<<>>,
     <<TypeDefProduct(<<Element(NoName, RefTo(0))>>)>>,
     <<TypeDefProduct(<<Element(NoName, RefTo(1))>>),
       TypeDefProduct(<<Element(NoName, ArrayOf(RefTo(0)))>>)>>}

(***************************************************************************)
(* Strings of the query engine.  A String is a TLA+ string; chars gives    *)
(* its characters, one one-character string each, for the code that looks  *)
(* inside a name.  The names of the model are made of ASCII letters, on    *)
(* which str::to_lowercase and the ASCII case mapping agree.               *)
(***************************************************************************)
UpperCase ==
    <<"A", "B", "C", "D", "E", "F", "G", "H", "I", "J", "K", "L", "M",
      "N", "O", "P", "Q", "R", "S", "T", "U", "V", "W", "X", "Y", "Z">>

LowerCase ==
    <<"a", "b", "c", "d", "e", "f", "g", "h", "i", "j", "k", "l", "m",
      "n", "o", "p", "q", "r", "s", "t", "u", "v", "w", "x", "y", "z">>

\* str::chars on the names and queries of the input universe.
chars(s) ==
    CASE s = "users" -> <<"u", "s", "e", "r", "s">>
      [] s = "User" -> <<"U", "s", "e", "r">>
      [] s = "Items" -> <<"I", "t", "e", "m", "s">>
      [] s = "USER" -> <<"U", "S", "E", "R">>
      [] s = "user" -> <<"u", "s", "e", "r">>
      [] s = "us" -> <<"u", "s">>
      [] s = "userrow" -> <<"u", "s", "e", "r", "r", "o", "w">>
      [] s = "UserRow" -> <<"U", "s", "e", "r", "R", "o", "w">>
      [] s = "UserSettings" ->
            <<"U", "s", "e", "r", "S", "e", "t", "t", "i", "n", "g", "s">>
      [] s = "Use" -> <<"U", "s", "e">>
      [] s = "Used" -> <<"U", "s", "e", "d">>
      [] s = "Item" -> <<"I", "t", "e", "m">>

\* The lower-case letter of each upper-case letter.
LowerCaseOf ==
    [c \in {UpperCase[i] : i \in 1..Len(UpperCase)} |->
        LowerCase[CHOOSE i \in 1..Len(UpperCase) : UpperCase[i] = c]]

\* The byte of each ASCII letter: A is 65, a is 97.
ByteOf ==
    [c \in {UpperCase[i] : i \in 1..Len(UpperCase)}
            \cup {LowerCase[i] : i \in 1..Len(LowerCase)} |->
        IF \E i \in 1..Len(UpperCase) : UpperCase[i] = c
        THEN 64 + (CHOOSE i \in 1..Len(UpperCase) : UpperCase[i] = c)
        ELSE 96 + (CHOOSE i \in 1..Len(LowerCase) : LowerCase[i] = c)]

\* char::to_ascii_lowercase
to_ascii_lowercase(c) == IF c \in DOMAIN LowerCaseOf THEN LowerCaseOf[c] ELSE c

\* The byte of an ASCII letter, which String's Ord compares.
byte(c) == ByteOf[c]

\* str::to_lowercase, as the characters of the result.
to_lowercase(s) ==
    [i \in 1..Len(chars(s)) |-> to_ascii_lowercase(chars(s)[i])]

\* eq_ignore_ascii_case accepting a query that is a prefix of the name.
eq_ignore_ascii_case_prefix(name, query) ==
    /\ Len(chars(query)) <= Len(chars(name))
    /\ \A i \in 1..Len(chars(query)) :
           to_ascii_lowercase(chars(name)[i]) = to_ascii_lowercase(chars(query)[i])

\* str::eq_ignore_ascii_case
eq_ignore_ascii_case(name, query) ==
    /\ Len(chars(name)) = Len(chars(query))
    /\ \A i \in 1..Len(chars(name)) :
           to_ascii_lowercase(chars(name)[i]) = to_ascii_lowercase(chars(query)[i])

\* str::contains(&str) on characters.
str_contains(haystack, needle) ==
    \E k \in 0..(Len(haystack) - Len(needle)) :
        SubSeq(haystack, k + 1, k + Len(needle)) = needle

\* str::starts_with(&str) on characters.
starts_with(s, prefix) ==
    /\ Len(prefix) <= Len(s)
    /\ SubSeq(s, 1, Len(prefix)) = prefix

\* Iterator::take on a sequence.
take(s, n) == SubSeq(s, 1, IF Len(s) < n THEN Len(s) ELSE n)

\* String's Ord (<) on characters: byte by byte, a prefix first.
RECURSIVE str_lt(_, _)
str_lt(a, b) ==
    IF b = <<>> THEN FALSE
    ELSE IF a = <<>> THEN TRUE
    ELSE IF byte(a[1]) # byte(b[1]) THEN byte(a[1]) < byte(b[1])
    ELSE str_lt(Tail(a), Tail(b))

\* slice::sort_by_key on [key, value] records: a stable sort.
RECURSIVE insert_by_key(_, _)
insert_by_key(x, sorted) ==
    IF sorted = <<>> THEN <<x>>
    ELSE IF str_lt(x.key, Head(sorted).key) THEN <<x>> \o sorted
    ELSE <<Head(sorted)>> \o insert_by_key(x, Tail(sorted))

RECURSIVE sort_by_key(_)
sort_by_key(s) ==
    IF s = <<>> THEN <<>>
    ELSE insert_by_key(s[Len(s)], sort_by_key(SubSeq(s, 1, Len(s) - 1)))

\* slice::sort on a Vec of Strings.
sort(strings) ==
    LET sorted == sort_by_key([i \in 1..Len(strings) |->
                                  [key |-> chars(strings[i]), value |-> strings[i]]])
    IN  [i \in 1..Len(sorted) |-> sorted[i].value]

\* The orders in which a HashMap with the keys S may be enumerated: the
\* code fixes none.
RECURSIVE Enumerations(_)
Enumerations(S) ==
    IF S = {} THEN {<<>>}
    ELSE UNION {{<<x>> \o e : e \in Enumerations(S \ {x})} : x \in S}

\* HashMap::iter enumerating the keys in the given order.
iter(map, order) == [i \in 1..Len(order) |-> <<order[i], map[order[i]]>>]

\* Vec::get
get(vec, index) == IF index < Len(vec) THEN <<vec[index + 1]>> ELSE <<>>

\* A printed line: what the line is and the values formatted into it.
\* Rulers and empty lines are not recorded.
Line(kind, values) == [kind |-> kind, values |-> values]

RECURSIVE Flatten(_)
Flatten(seqs) ==
    IF seqs = <<>> THEN <<>> ELSE Head(seqs) \o Flatten(Tail(seqs))

(***************************************************************************)
(* Query views.  A view is the sequence of the lines it prints.  A view    *)
(* that enumerates the name map takes the order of the enumeration as its  *)
(* last argument.                                                          *)
(***************************************************************************)
\* SchemaArgs, the fields fetch_schema hands on: db, server, version and
\* cloud only make up the request.
SchemaArgs(format, table, type_filter, enum_filter, search) ==
    [format |-> format, table |-> table, type_filter |-> type_filter,
     enum_filter |-> enum_filter, search |-> search]

SatsSchema(typespace_types, table_infos, named_types) ==
    [typespace |-> [types |-> typespace_types], tables |-> table_infos,
     types |-> named_types]

TableInfo(name, product_type_ref, primary_key) ==
    [name |-> name, product_type_ref |-> product_type_ref,
     primary_key |-> primary_key]

\* TypeDef::Builtin and TypeDef::Ref, typespace entries.
TypeDefBuiltin(builtin) == [tag |-> "Builtin", Builtin |-> builtin]

TypeDefRef(i) == [tag |-> "Ref", Ref |-> i]

\* type_names.get(&r).cloned().unwrap_or_else(|| format!("Type_{}", r))
type_name_or_default(names, product_type_ref) ==
    IF product_type_ref \in DOMAIN names
    THEN names[product_type_ref]
    ELSE "Type_" \o ToString(product_type_ref)

\* The loop over Product.elements of a filtered view: named fields only.
field_lines(Product, names) ==
    LET named == SelectSeq(Product.elements, LAMBDA e : as_option(e.name) # <<>>)
    IN  [i \in 1..Len(named) |->
            Line("field", <<as_option(named[i].name)[1],
                            format_type(named[i].algebraic_type, names)>>)]

\* The loop over the variants of an enum: named variants only, a unit
\* variant by its name, any other with its formatted payload.
variant_lines(sum, names) ==
    LET named == SelectSeq(sum.variants, LAMBDA v : as_option(v.name) # <<>>)
    IN  [i \in 1..Len(named) |->
            IF IsUnitPayload(named[i].algebraic_type)
            THEN Line("variant", <<as_option(named[i].name)[1]>>)
            ELSE Line("variant", <<as_option(named[i].name)[1],
                                   format_type(named[i].algebraic_type, names)>>)]

display_single_table(schema, names, table_name) ==
    LET found == {i \in 1..Len(schema.tables) :
                     eq_ignore_ascii_case(schema.tables[i].name, table_name)}
    IN  IF found # {}
        THEN LET table == schema.tables[FirstOf(found)]
                 type_def == get(schema.typespace.types, table.product_type_ref)
             IN  <<Line("TABLE:", <<table.name>>),
                   Line("Type:", <<type_name_or_default(names, table.product_type_ref)>>)>>
                 \o (IF type_def # <<>> /\ type_def[1].tag = "Product"
                     THEN <<Line("Fields", <<ToString(Len(type_def[1].Product.elements))>>)>>
                          \o field_lines(type_def[1].Product, names)
                     ELSE <<>>)
                 \o (IF table.primary_key # <<>>
                     THEN <<Line("Primary Key:",
                                 [i \in 1..Len(table.primary_key) |->
                                     ToString(table.primary_key[i])])>>
                     ELSE <<>>)
        ELSE <<Line("Table not found", <<table_name>>),
               Line("Available tables:", <<>>)>>
             \o [i \in 1..Len(schema.tables) |-> Line("-", <<schema.tables[i].name>>)]

display_single_enum_by_ref(names, real_name, sum) ==
    <<Line("ENUM:", <<real_name>>)>>
    \o (IF detect_spacetimedb_sum_type(sum) # <<>>
        THEN <<Line("SpacetimeDB Type:", detect_spacetimedb_sum_type(sum))>>
        ELSE <<>>)
    \o <<Line("Variants", <<ToString(Len(sum.variants))>>)>>
    \o variant_lines(sum, names)

\* The filter of suggest_similar_types.
is_similar(name, search) ==
    LET search_lower == to_lowercase(search)
        name_lower == to_lowercase(name)
    IN  \/ str_contains(name_lower, search_lower)
        \/ str_contains(search_lower, name_lower)
        \/ starts_with(name_lower, take(search_lower, 3))

\* suggest_similar_types without take(5).
suggest_similar_types_no_cap(names, search, order) ==
    LET names_values == [i \in 1..Len(order) |-> names[order[i]]]
        suggestions ==
            sort(SelectSeq(names_values, LAMBDA name : is_similar(name, search)))
    IN  <<Line("Did you mean one of these?", <<>>)>>
        \o [i \in 1..Len(suggestions) |-> Line("-", <<suggestions[i]>>)]

suggest_similar_types(names, search, order) ==
    LET names_values == [i \in 1..Len(order) |-> names[order[i]]]
        suggestions ==
            sort(take(SelectSeq(names_values, LAMBDA name : is_similar(name, search)), 5))
    IN  <<Line("Did you mean one of these?", <<>>)>>
        \o [i \in 1..Len(suggestions) |-> Line("-", <<suggestions[i]>>)]

suggest_enum_types(schema, names, order) ==
    LET entries == iter(names, order)
        sums == SelectSeq(entries, LAMBDA e :
                    /\ get(schema.typespace.types, e[1]) # <<>>
                    /\ get(schema.typespace.types, e[1])[1].tag = "Sum")
        enums == take(sort([i \in 1..Len(sums) |-> sums[i][2]]), 10)
    IN  <<Line("Available enums:", <<>>)>>
        \o [i \in 1..Len(enums) |-> Line("-", <<enums[i]>>)]

display_single_type(schema, names, type_name, order) ==
    LET entries == iter(names, order)
        found == {i \in 1..Len(entries) : eq_ignore_ascii_case(entries[i][2], type_name)}
    IN  IF found # {}
        THEN LET type_idx == entries[FirstOf(found)][1]
                 real_name == entries[FirstOf(found)][2]
                 type_def == get(schema.typespace.types, type_idx)
             IN  IF type_def # <<>>
                 THEN CASE type_def[1].tag = "Product" ->
                             <<Line("STRUCT:", <<real_name>>)>>
                             \o (IF detect_spacetimedb_type(type_def[1].Product) # <<>>
                                 THEN <<Line("SpacetimeDB Type:",
                                             detect_spacetimedb_type(type_def[1].Product))>>
                                 ELSE <<>>)
                             \o <<Line("Fields",
                                       <<ToString(Len(type_def[1].Product.elements))>>)>>
                             \o field_lines(type_def[1].Product, names)
                        [] type_def[1].tag = "Sum" ->
                             display_single_enum_by_ref(names, real_name, type_def[1].Sum)
                        [] OTHER ->
                             <<Line("is not a struct or enum", <<type_name>>)>>
                 ELSE <<>>
        ELSE <<Line("Type not found", <<type_name>>)>>
             \o suggest_similar_types(names, type_name, order)

display_single_enum(schema, names, enum_name, order) ==
    LET entries == iter(names, order)
        found == {i \in 1..Len(entries) : eq_ignore_ascii_case(entries[i][2], enum_name)}
    IN  IF found # {}
        THEN LET type_idx == entries[FirstOf(found)][1]
                 real_name == entries[FirstOf(found)][2]
                 type_def == get(schema.typespace.types, type_idx)
             IN  IF type_def # <<>> /\ type_def[1].tag = "Sum"
                 THEN display_single_enum_by_ref(names, real_name, type_def[1].Sum)
                 ELSE <<Line("is not an enum", <<enum_name>>)>>
                      \o suggest_enum_types(schema, names, order)
        ELSE <<Line("Enum not found", <<enum_name>>)>>
             \o suggest_enum_types(schema, names, order)

\* The table lines of the search view and of the full dump.
table_line(table, names) ==
    Line("table", <<table.name, type_name_or_default(names, table.product_type_ref)>>)

\* The type entry of the search view for one matching name.
search_type_lines(schema, type_idx, name) ==
    LET type_def == get(schema.typespace.types, type_idx)
    IN  IF type_def = <<>> THEN <<>>
        ELSE CASE type_def[1].tag = "Sum" ->
                    <<Line("enum", <<name, ToString(Len(type_def[1].Sum.variants))>>)>>
               [] type_def[1].tag = "Product" ->
                    <<Line("struct", <<name, ToString(Len(type_def[1].Product.elements))>>)>>
               [] OTHER -> <<>>

\* display_search_results listing the row types of the tables as well.
display_search_results_with_row_types(schema, names, pattern, order) ==
    LET pattern_lower == to_lowercase(pattern)
        matching_tables ==
            SelectSeq(schema.tables,
                      LAMBDA t : str_contains(to_lowercase(t.name), pattern_lower))
        matching_types ==
            SelectSeq(iter(names, order),
                      LAMBDA e : str_contains(to_lowercase(e[2]), pattern_lower))
    IN  <<Line("SEARCH RESULTS FOR:", <<pattern>>)>>
        \o (IF matching_tables # <<>>
            THEN <<Line("TABLES:", <<>>)>>
                 \o [i \in 1..Len(matching_tables) |-> table_line(matching_tables[i], names)]
            ELSE <<>>)
        \o (IF matching_types # <<>>
            THEN <<Line("OTHER TYPES:", <<>>)>>
                 \o Flatten([i \in 1..Len(matching_types) |->
                                search_type_lines(schema, matching_types[i][1],
                                                  matching_types[i][2])])
            ELSE <<>>)
        \o (IF matching_tables = <<>> /\ matching_types = <<>>
            THEN <<Line("No matches found", <<pattern>>)>>
            ELSE <<>>)

display_search_results(schema, names, pattern, order) ==
    LET pattern_lower == to_lowercase(pattern)
        matching_tables ==
            SelectSeq(schema.tables,
                      LAMBDA t : str_contains(to_lowercase(t.name), pattern_lower))
        matching_types ==
            SelectSeq(iter(names, order),
                      LAMBDA e :
                          /\ str_contains(to_lowercase(e[2]), pattern_lower)
                          /\ ~\E i \in 1..Len(schema.tables) :
                                  schema.tables[i].product_type_ref = e[1])
    IN  <<Line("SEARCH RESULTS FOR:", <<pattern>>)>>
        \o (IF matching_tables # <<>>
            THEN <<Line("TABLES:", <<>>)>>
                 \o [i \in 1..Len(matching_tables) |-> table_line(matching_tables[i], names)]
            ELSE <<>>)
        \o (IF matching_types # <<>>
            THEN <<Line("OTHER TYPES:", <<>>)>>
                 \o Flatten([i \in 1..Len(matching_types) |->
                                search_type_lines(schema, matching_types[i][1],
                                                  matching_types[i][2])])
            ELSE <<>>)
        \o (IF matching_tables = <<>> /\ matching_types = <<>>
            THEN <<Line("No matches found", <<pattern>>)>>
            ELSE <<>>)

\* The loop over Product.elements of the full dump: an unnamed field is
\* shown under its position.
struct_field_lines(Product, names) ==
    [i \in 1..Len(Product.elements) |->
        Line("field",
             <<IF as_option(Product.elements[i].name) # <<>>
               THEN as_option(Product.elements[i].name)[1]
               ELSE ToString(i - 1),
               format_type(Product.elements[i].algebraic_type, names)>>)]

\* The entry of the full dump for one standalone type.
standalone_type_lines(schema, names, type_idx, real_name) ==
    LET type_def == get(schema.typespace.types, type_idx)
    IN  IF type_def = <<>> THEN <<>>
        ELSE CASE type_def[1].tag = "Sum" ->
                    IF detect_spacetimedb_sum_type(type_def[1].Sum) # <<>>
                    THEN <<Line("SpacetimeDB type",
                                <<real_name, detect_spacetimedb_sum_type(type_def[1].Sum)[1]>>)>>
                    ELSE <<Line("enum", <<real_name,
                                          ToString(Len(type_def[1].Sum.variants))>>)>>
                         \o variant_lines(type_def[1].Sum, names)
               [] type_def[1].tag = "Product" ->
                    IF detect_spacetimedb_type(type_def[1].Product) # <<>>
                    THEN <<Line("SpacetimeDB type",
                                <<real_name, detect_spacetimedb_type(type_def[1].Product)[1]>>)>>
                    ELSE <<Line("struct", <<real_name,
                                            ToString(Len(type_def[1].Product.elements))>>)>>
                         \o struct_field_lines(type_def[1].Product, names)
               [] OTHER -> <<>>

\* The table entry of the full dump: the table and its named fields.
table_entry_lines(schema, names, table) ==
    LET type_def == get(schema.typespace.types, table.product_type_ref)
    IN  <<table_line(table, names)>>
        \o (IF type_def # <<>> /\ type_def[1].tag = "Product"
            THEN field_lines(type_def[1].Product, names)
            ELSE <<>>)

\* display_schema_pretty, "Default: show everything".
display_everything(schema, names, order) ==
    LET table_type_refs ==
            {schema.tables[i].product_type_ref : i \in 1..Len(schema.tables)}
        standalone ==
            SelectSeq(iter(names, order), LAMBDA e : e[1] \notin table_type_refs)
        standalone_types ==
            sort_by_key([i \in 1..Len(standalone) |->
                            [key |-> to_lowercase(standalone[i][2]),
                             value |-> standalone[i]]])
        enum_count ==
            Cardinality({i \in 1..Len(schema.typespace.types) :
                            schema.typespace.types[i].tag = "Sum"})
    IN  <<Line("SPACETIMEDB SCHEMA", <<>>),
          Line("TABLES", <<ToString(Len(schema.tables))>>)>>
        \o Flatten([i \in 1..Len(schema.tables) |->
                       table_entry_lines(schema, names, schema.tables[i])])
        \o <<Line("OTHER TYPES", <<>>)>>
        \o Flatten([i \in 1..Len(standalone_types) |->
                       standalone_type_lines(schema, names,
                                             standalone_types[i].value[1],
                                             standalone_types[i].value[2])])
        \o <<Line("SUMMARY", <<>>),
             Line("tables", <<ToString(Len(schema.tables))>>),
             Line("types total", <<ToString(Len(schema.typespace.types))>>),
             Line("enums", <<ToString(enum_count)>>)>>

\* A call of one view: the view and the lines it prints.
Rendering(view, lines) == [view |-> view, lines |-> lines]

\* display_schema_pretty with a branch for the search pattern that does
\* not wait for the filters to be absent.
display_schema_pretty_search_too(schema, names, table_filter, type_filter, enum_filter, search_pattern, order) ==
    (IF table_filter # <<>>
     THEN <<Rendering("display_single_table",
                      display_single_table(schema, names, table_filter[1]))>>
     ELSE IF type_filter # <<>>
     THEN <<Rendering("display_single_type",
                      display_single_type(schema, names, type_filter[1], order))>>
     ELSE IF enum_filter # <<>>
     THEN <<Rendering("display_single_enum",
                      display_single_enum(schema, names, enum_filter[1], order))>>
     ELSE IF search_pattern # <<>> THEN <<>>
     ELSE <<Rendering("everything", display_everything(schema, names, order))>>)
    \o (IF search_pattern # <<>>
        THEN <<Rendering("display_search_results",
                         display_search_results(schema, names, search_pattern[1], order))>>
        ELSE <<>>)

\* display_schema_pretty, "Apply filters": the views it calls, in order.
display_schema_pretty(schema, names, table_filter, type_filter, enum_filter, search_pattern, order) ==
    IF table_filter # <<>>
    THEN <<Rendering("display_single_table",
                     display_single_table(schema, names, table_filter[1]))>>
    ELSE IF type_filter # <<>>
    THEN <<Rendering("display_single_type",
                     display_single_type(schema, names, type_filter[1], order))>>
    ELSE IF enum_filter # <<>>
    THEN <<Rendering("display_single_enum",
                     display_single_enum(schema, names, enum_filter[1], order))>>
    ELSE IF search_pattern # <<>>
    THEN <<Rendering("display_search_results",
                     display_search_results(schema, names, search_pattern[1], order))>>
    ELSE <<Rendering("everything", display_everything(schema, names, order))>>

\* Cli: the combinations of filters clap accepts. table, type_filter and
\* enum_filter conflict with one another; search conflicts with none.
cli_accepts(a) ==
    /\ a.table # <<>> => (a.type_filter = <<>> /\ a.enum_filter = <<>>)
    /\ a.type_filter # <<>> => (a.table = <<>> /\ a.enum_filter = <<>>)
    /\ a.enum_filter # <<>> => (a.table = <<>> /\ a.type_filter = <<>>)

(***************************************************************************)
(* Input universe of the query views.                                      *)
(***************************************************************************)
\* Most tables of a fetched schema.
MaxTables == 2
\* Longest NamedType list of a fetched schema.
MaxQueryNamed == 2
\* Longest NamedType list of the suggestion specification.
MaxSuggested == 6

RowDef ==
    TypeDefProduct(<<Element(SomeName("id"), I64), Element(NoName, RefTo(1))>>)

SettingsDef ==
    TypeDefProduct(<<Element(SomeName("theme"), Scalar("String")),
                     Element(SomeName("owner"), RefTo(0))>>)

StatusDef ==
    SumOf(<<Variant(SomeName("Active"), Unit), Variant(SomeName("Banned"), I64)>>)

StringDef == TypeDefBuiltin(Scalar("String"))

IdentityDef == TypeDefProduct(<<Element(SomeName("__identity__"), U256)>>)

ScheduledAtDef ==
    SumOf(<<Variant(SomeName("Interval"), U64), Variant(SomeName("Time"), I64)>>)

\* Typespaces of one or two entries: index 1 dangles in the first.
QueryTypespaces ==
    {<<RowDef>>,
     <<RowDef, SettingsDef>>,
     <<StatusDef, StringDef>>,
     <<TypeDefRef(1), StatusDef>>,
     <<IdentityDef, ScheduledAtDef>>}

QueryTableInfos ==
    {TableInfo("users", 0, <<0>>), TableInfo("User", 1, <<0, 1>>),
     TableInfo("user", 0, <<>>), TableInfo("Items", 1, <<>>)}

\* The lists of up to n different members of S.
ListsOf(S, n) ==
    UNION {{s \in [1..k -> S] : \A i, j \in 1..k : i # j => s[i] # s[j]} : k \in 0..n}

QueryTables == ListsOf(QueryTableInfos, MaxTables)

QueryNamedTypes ==
    {NamedType("UserRow", 0), NamedType("UserSettings", 1),
     NamedType("userrow", 1), NamedType("Item", 0)}

QueryNamedTypeLists == ListsOf(QueryNamedTypes, MaxQueryNamed)

OutputFormats == {"Pretty", "Json", "Raw"}

\* Every combination of the four filters, also those the command line
\* rejects: display_schema_pretty takes them all.
QueryArgs ==
    {SchemaArgs(f, t, ty, e, s) :
        f \in OutputFormats, t \in {<<>>, <<"USER">>}, ty \in {<<>>, <<"userrow">>},
        e \in {<<>>, <<"userrow">>}, s \in {<<>>, <<"user">>}}

\* What becomes of the request: no client, no response, a response that
\* is not a success, a body that is not JSON, a JSON document.
Responses == {"no_client", "send_failed", "not_success", "not_json", "json"}

\* The named types the suggestion specification draws from, each under
\* its own index; the name UserRow is there twice.
SuggestPool ==
    <<NamedType("UserRow", 0), NamedType("UserSettings", 1), NamedType("Use", 2),
      NamedType("Used", 3), NamedType("userrow", 4), NamedType("UserRow", 5),
      NamedType("Item", 6)>>

SuggestNamedTypeLists ==
    {SelectSeq(SuggestPool, LAMBDA named_type : named_type.ty \in I) :
        I \in {J \in SUBSET (0..(Len(SuggestPool) - 1)) : Cardinality(J) <= MaxSuggested}}

\* Type queries that equal no name of the pool.
SuggestArgs ==
    {SchemaArgs("Pretty", <<>>, <<s>>, <<>>, <<>>) : s \in {"user", "us"}}

(***************************************************************************)
(* State machine.                                                          *)
(***************************************************************************)
\* The state of the query variables before anything has run.
QueryIdle(a) ==
    /\ tables = <<>>
    /\ args = a
    /\ printed = <<>>
    /\ views = <<>>
    /\ result = <<>>

InitWith(T, N, A) ==
    /\ typespace \in T
    /\ types \in N
    /\ alg \in A
    /\ type_names = EmptyMap
    /\ out = ""
    /\ stack = <<>>
    /\ pc = "decoded"
    /\ QueryIdle(SchemaArgs("Pretty", <<>>, <<>>, <<>>, <<>>))

Init == InitWith(Typespaces, FormatNamedTypes, AlgebraicTypes)

InitNames == InitWith({<<>>}, AllNamedTypes, Refs)

\* display_schema_pretty, "Extract real names".
ExtractNames ==
    /\ pc = "decoded"
    /\ type_names' = extract_type_names(types, EmptyMap)
    /\ pc' = "named"
    /\ UNCHANGED <<typespace, types, alg, out, stack, qvars>>

\* A call of format_type from a display view, as one step.
FormatType ==
    /\ pc = "named"
    /\ out' = format_type(alg, type_names)
    /\ pc' = "done"
    /\ UNCHANGED <<typespace, types, alg, type_names, stack, qvars>>

\* The same call, activation by activation.
BeginFormat ==
    /\ pc = "named"
    /\ stack' = <<Frame(alg)>>
    /\ pc' = "formatting"
    /\ UNCHANGED <<typespace, types, alg, type_names, out, qvars>>

\* The top activation makes its next recursive call.
Descend ==
    /\ pc = "formatting"
    /\ stack # <<>>
    /\ Head(stack).todo # <<>>
    /\ stack' = <<Frame(Head(Head(stack).todo)),
                  [Head(stack) EXCEPT !.todo = Tail(@)]>> \o Tail(stack)
    /\ UNCHANGED <<typespace, types, alg, type_names, out, pc, qvars>>

\* The top activation returns its string to its caller.
Return ==
    /\ pc = "formatting"
    /\ stack # <<>>
    /\ Head(stack).todo = <<>>
    /\ LET r == format_type_result(Head(stack).t, Head(stack).rets, type_names)
           rest == Tail(stack)
       IN  IF rest = <<>>
           THEN /\ out' = r
                /\ stack' = <<>>
                /\ pc' = "done"
           ELSE /\ stack' = <<[Head(rest) EXCEPT !.rets = Append(@, r)]>> \o Tail(rest)
                /\ UNCHANGED <<out, pc>>
    /\ UNCHANGED <<typespace, types, alg, type_names, qvars>>

Next == ExtractNames \/ FormatType

NextSteps == ExtractNames \/ BeginFormat \/ Descend \/ Return

Spec == Init /\ [][Next]_vars

SpecNames == InitNames /\ [][Next]_vars

SpecSteps == Init /\ [][NextSteps]_vars

\* format_type runs synchronously on one thread: a step that can be taken
\* is taken.
SpecStepsFair == SpecSteps /\ WF_vars(NextSteps)

(***************************************************************************)
(* An invocation of fetch_schema, step by step.                            *)
(***************************************************************************)
InitQuery ==
    /\ typespace = <<>>
    /\ types = <<>>
    /\ alg = Unit
    /\ type_names = EmptyMap
    /\ out = ""
    /\ stack = <<>>
    /\ pc = "start"
    /\ \E a \in QueryArgs : QueryIdle(a)

InitSuggest ==
    /\ typespace = <<>>
    /\ types \in SuggestNamedTypeLists
    /\ alg = Unit
    /\ type_names = EmptyMap
    /\ out = ""
    /\ stack = <<>>
    /\ pc = "decoded"
    /\ \E a \in SuggestArgs : QueryIdle(a)

\* fetch_schema up to "Fetched": SpacetimeClient::new, the first line and
\* SpacetimeClient::fetch_schema; every failure leaves by "?".
FetchSchema ==
    /\ pc = "start"
    /\ \E response \in Responses :
          IF response = "no_client"
          THEN /\ result' = <<"Err">>
               /\ pc' = "exit"
               /\ UNCHANGED printed
          ELSE IF response # "json"
          THEN /\ printed' = <<Line("Fetching schema from:", <<>>)>>
               /\ result' = <<"Err">>
               /\ pc' = "exit"
          ELSE /\ printed' = <<Line("Fetching schema from:", <<>>),
                               Line("Fetched", <<>>)>>
               /\ pc' = "fetched"
               /\ UNCHANGED result
    /\ UNCHANGED <<typespace, types, alg, type_names, out, stack, tables, args, views>>

\* fetch_schema, the arm OutputFormat::Raw | OutputFormat::Json, and Ok(()).
PrintSchemaText ==
    /\ pc = "fetched"
    /\ args.format \in {"Raw", "Json"}
    /\ printed' = Append(printed, Line("schema_text", <<>>))
    /\ result' = <<"Ok">>
    /\ pc' = "exit"
    /\ UNCHANGED <<typespace, types, alg, type_names, out, stack, tables, args, views>>

\* fetch_schema, the arm OutputFormat::Pretty up to the call of
\* display_schema_pretty: the document is a SatsSchema or it is not.
Decode ==
    /\ pc = "fetched"
    /\ args.format = "Pretty"
    /\ \/ /\ result' = <<"Err">>
          /\ pc' = "exit"
          /\ UNCHANGED <<typespace, types, tables>>
       \/ /\ typespace' \in QueryTypespaces
          /\ tables' \in QueryTables
          /\ types' \in QueryNamedTypeLists
          /\ pc' = "decoded"
          /\ UNCHANGED result
    /\ UNCHANGED <<alg, type_names, out, stack, args, printed, views>>

\* display_schema_pretty after the name map is built: the view, with the
\* name map enumerated in any order.
DisplaySchemaPretty ==
    /\ pc = "named"
    /\ \E order \in Enumerations(DOMAIN type_names) :
          LET rendered ==
                  display_schema_pretty(SatsSchema(typespace, tables, types), type_names,
                                        args.table, args.type_filter,
                                        args.enum_filter, args.search, order)
          IN  /\ views' = [i \in 1..Len(rendered) |-> rendered[i].view]
              /\ printed' = printed \o Flatten([i \in 1..Len(rendered) |-> rendered[i].lines])
    /\ pc' = "rendered"
    /\ UNCHANGED <<typespace, types, alg, type_names, out, stack, tables, args, result>>

\* fetch_schema, Ok(()) after display_schema_pretty has returned.
ReturnOk ==
    /\ pc = "rendered"
    /\ result' = <<"Ok">>
    /\ pc' = "exit"
    /\ UNCHANGED <<typespace, types, alg, type_names, out, stack, tables, args,
                   printed, views>>

NextQuery ==
    FetchSchema \/ PrintSchemaText \/ Decode \/ ExtractNames
    \/ DisplaySchemaPretty \/ ReturnOk

NextSuggest == ExtractNames \/ DisplaySchemaPretty

SpecQuery == InitQuery /\ [][NextQuery]_vars

SpecSuggest == InitSuggest /\ [][NextSuggest]_vars

(***************************************************************************)
(* Shapes the specification names, stated on the data alone.               *)
(***************************************************************************)
\* The set of the names of a Sum's variants or a Product's elements.
NameSet(entries) == {entries[i].name : i \in 1..Len(entries)}

EmptyProduct(t) == t = ProductOf(<<>>)

ScheduledAtShape(sum) ==
    /\ Len(sum.variants) = 2
    /\ NameSet(sum.variants) = {SomeName("Interval"), SomeName("Time")}

\* Rule (a): the names are exactly Some and None.
OptionRuleA(sum) ==
    /\ Len(sum.variants) = 2
    /\ NameSet(sum.variants) = {SomeName("Some"), SomeName("None")}

\* Rule (b): one payload is the empty Product, the other is not.
OptionRuleB(sum) ==
    /\ Len(sum.variants) = 2
    /\ \E i, j \in 1..2 :
          /\ i # j
          /\ EmptyProduct(sum.variants[i].algebraic_type)
          /\ ~EmptyProduct(sum.variants[j].algebraic_type)

OptionShape(sum) == OptionRuleA(sum) \/ OptionRuleB(sum)

SingleField(product, name, tag) ==
    /\ Len(product.elements) = 1
    /\ product.elements[1].name = SomeName(name)
    /\ product.elements[1].algebraic_type = Scalar(tag)

IdiomOf(product) ==
    IF SingleField(product, "__identity__", "U256") THEN <<"Identity">>
    ELSE IF SingleField(product, "__timestamp_micros_since_unix_epoch__", "I64")
    THEN <<"Timestamp">>
    ELSE IF SingleField(product, "__time_duration_micros__", "I64")
    THEN <<"Duration">>
    ELSE <<>>

\* The inner type rule (b) names: the non-unit variant's type, or its single
\* element's type when it is a Product of exactly one element.
InnerOfRuleB(sum) ==
    LET j == CHOOSE j \in 1..2 : ~EmptyProduct(sum.variants[j].algebraic_type)
        ty == sum.variants[j].algebraic_type
    IN  IF ty.tag = "Product" /\ Len(ty.Product.elements) = 1
        THEN ty.Product.elements[1].algebraic_type
        ELSE ty

\* The payload of the first variant named Some.
PayloadOfSome(sum) ==
    LET i == CHOOSE i \in 1..Len(sum.variants) :
                /\ sum.variants[i].name = SomeName("Some")
                /\ \A k \in 1..(i - 1) : sum.variants[k].name # SomeName("Some")
    IN  sum.variants[i].algebraic_type

\* A Sum formatted under rule (b): not ScheduledAt, not rule (a).
FormattedByRuleB ==
    /\ pc = "done"
    /\ alg.tag = "Sum"
    /\ OptionRuleB(alg.Sum)
    /\ ~OptionRuleA(alg.Sum)
    /\ ~ScheduledAtShape(alg.Sum)

StartEndShape(sum) ==
    /\ Len(sum.variants) = 2
    /\ NameSet(sum.variants) = {SomeName("Start"), SomeName("End")}

\* The string a Ref renders to.
RefString(i) ==
    IF i \in DOMAIN type_names THEN type_names[i] ELSE "Type_" \o ToString(i)

\* The elements' formatted types, in element order.
FormattedElements(product) ==
    [i \in 1..Len(product.elements) |->
        format_type(product.elements[i].algebraic_type, type_names)]

\* The name of the last NamedType entry whose ty is i.
LastNameOf(i) ==
    LET k == CHOOSE k \in 1..Len(types) :
                /\ types[k].ty = i
                /\ \A m \in (k + 1)..Len(types) : types[m].ty # i
    IN  types[k].name

RECURSIVE Size(_)
RECURSIVE SumSizes(_)
RECURSIVE Depth(_)
RECURSIVE MaxDepth(_)

\* Number of nodes of a type.
Size(t) ==
    CASE t.tag = "Array" -> 1 + Size(t.Array)
      [] t.tag = "Product" -> 1 + SumSizes(t.Product.elements)
      [] t.tag = "Sum" -> 1 + SumSizes(t.Sum.variants)
      [] OTHER -> 1

SumSizes(entries) ==
    IF entries = <<>> THEN 0
    ELSE Size(Head(entries).algebraic_type) + SumSizes(Tail(entries))

\* Nesting depth of a type.
Depth(t) ==
    CASE t.tag = "Array" -> 1 + Depth(t.Array)
      [] t.tag = "Product" -> 1 + MaxDepth(t.Product.elements)
      [] t.tag = "Sum" -> 1 + MaxDepth(t.Sum.variants)
      [] OTHER -> 1

MaxDepth(entries) ==
    IF entries = <<>> THEN 0
    ELSE LET d == Depth(Head(entries).algebraic_type)
             r == MaxDepth(Tail(entries))
         IN  IF d > r THEN d ELSE r

\* Ranking function of the running formatter: one step for the return of
\* each activation on the stack, and two per node of each type an
\* activation has still to call format_type on.
RECURSIVE TodoSize(_)
TodoSize(todo) ==
    IF todo = <<>> THEN 0 ELSE Size(Head(todo)) + TodoSize(Tail(todo))

RECURSIVE Measure(_)
Measure(frames) ==
    IF frames = <<>> THEN 0
    ELSE 1 + 2 * TodoSize(Head(frames).todo) + Measure(Tail(frames))

(***************************************************************************)
(* Claims.                                                                 *)
(***************************************************************************)
\* C3: is_option_type(sum) is true iff the Sum has exactly two variants and
\* either its names are exactly {Some, None} or one payload is the empty
\* Product and the other is anything else; so a two-variant Sum with other
\* names whose payloads are both non-unit, or both unit, is not optional.
C3_IsOptionIffShape ==
    alg.tag = "Sum" =>
        /\ is_option_type(alg.Sum) <=> OptionShape(alg.Sum)
        /\ ( /\ Len(alg.Sum.variants) = 2
             /\ ~OptionRuleA(alg.Sum)
             /\ EmptyProduct(alg.Sum.variants[1].algebraic_type)
                    <=> EmptyProduct(alg.Sum.variants[2].algebraic_type) )
           => ~is_option_type(alg.Sum)

\* A Sum named Start / End with two non-unit payloads has been formatted
\* and was not taken for an Option.
C3_Witness ==
    /\ pc = "done"
    /\ alg.tag = "Sum"
    /\ Len(alg.Sum.variants) = 2
    /\ NameSet(alg.Sum.variants) = {SomeName("Start"), SomeName("End")}
    /\ \A i \in 1..2 : ~EmptyProduct(alg.Sum.variants[i].algebraic_type)
    /\ ~is_option_type(alg.Sum)
    /\ out = "Sum(2 variants)"

\* C4: a Product is recognised as Identity, Timestamp or Duration iff it has
\* exactly one element, named by the idiom's marker and of the idiom's
\* scalar type (U256 for Identity, I64 for the other two); a single element
\* __identity__ of type I64 or U64 formats as Product(1 fields).
C4_IdiomIffMarkerAndScalar ==
    alg.tag = "Product" =>
        /\ detect_spacetimedb_type(alg.Product) = IdiomOf(alg.Product)
        /\ ( /\ pc = "done"
             /\ \/ SingleField(alg.Product, "__identity__", "I64")
                \/ SingleField(alg.Product, "__identity__", "U64") )
           => out = "Product(1 fields)"

C4_Witness ==
    /\ pc = "done"
    /\ alg = ProductOf(<<Element(SomeName("__identity__"), Scalar("I64"))>>)
    /\ detect_spacetimedb_type(alg.Product) = <<>>
    /\ out = "Product(1 fields)"

\* C5: detect_spacetimedb_sum_type returns ScheduledAt iff the Sum has
\* exactly two variants whose names are, as a set, exactly {Interval, Time},
\* in either order and whatever the payloads; a Sum with one, three or more
\* variants, an unnamed variant or a repeated name is never ScheduledAt.
C5_ScheduledAtIffIntervalTime ==
    alg.tag = "Sum" =>
        /\ detect_spacetimedb_sum_type(alg.Sum) =
              IF ScheduledAtShape(alg.Sum) THEN <<"ScheduledAt">> ELSE <<>>
        /\ pc = "done" => (out = "ScheduledAt" <=> ScheduledAtShape(alg.Sum))

\* Time before Interval, both with data: formatted as ScheduledAt.
C5_Witness ==
    /\ pc = "done"
    /\ alg.tag = "Sum"
    /\ Len(alg.Sum.variants) = 2
    /\ alg.Sum.variants[1].name = SomeName("Time")
    /\ alg.Sum.variants[2].name = SomeName("Interval")
    /\ \A i \in 1..2 : ~EmptyProduct(alg.Sum.variants[i].algebraic_type)
    /\ out = "ScheduledAt"

\* C2 as stated: under rule (b) the inner type of Option<...> is the
\* non-unit variant's type, or its single element's type when it is a
\* one-element Product, for every choice of variant names and order.
C2_Original ==
    FormattedByRuleB =>
        /\ get_option_inner_type(alg.Sum) = <<InnerOfRuleB(alg.Sum)>>
        /\ out = "Option<" \o format_type(InnerOfRuleB(alg.Sum), type_names) \o ">"

\* C2 as amended: under rule (b) the inner type of Option<...> is the
\* non-unit variant's type, or its single element's type when it is a
\* one-element Product, in either variant order and for every choice of
\* names in which no variant is named Some; when a variant is named Some the
\* inner type is the payload of the first such variant as it stands.
C2_InnerTypeUnlessNamedSome ==
    (alg.tag = "Sum" /\ OptionRuleB(alg.Sum)) =>
        LET inner == IF SomeName("Some") \in NameSet(alg.Sum.variants)
                     THEN PayloadOfSome(alg.Sum)
                     ELSE InnerOfRuleB(alg.Sum)
        IN  /\ get_option_inner_type(alg.Sum) = <<inner>>
            /\ (pc = "done" /\ ~ScheduledAtShape(alg.Sum))
                  => out = "Option<" \o format_type(inner, type_names) \o ">"

\* The unit variant comes first, the other holds a one-element Product,
\* no variant is named Some: the element's type is the inner type.
C2_Witness ==
    /\ FormattedByRuleB
    /\ SomeName("Some") \notin NameSet(alg.Sum.variants)
    /\ EmptyProduct(alg.Sum.variants[1].algebraic_type)
    /\ alg.Sum.variants[2].algebraic_type = ProductOf(<<Element(SomeName("id"), I64)>>)
    /\ out = "Option<i64>"

\* C6 as stated: every two-variant Sum whose variants are named Start and
\* End is formatted as Sum(2 variants), whatever the two payload types.
C6_Original ==
    (pc = "done" /\ alg.tag = "Sum" /\ StartEndShape(alg.Sum))
        => out = "Sum(2 variants)"

\* C6 as amended: a two-variant Sum whose variants are named Start and End
\* is never formatted as ScheduledAt; it is formatted as Sum(2 variants)
\* when its payloads are both empty Products or both non-unit, and as
\* Option<T>, T the inner type of rule (b), when exactly one payload is the
\* empty Product.
C6_StartEndGenericUnlessOneUnit ==
    (pc = "done" /\ alg.tag = "Sum" /\ StartEndShape(alg.Sum)) =>
        /\ out # "ScheduledAt"
        /\ out = IF OptionRuleB(alg.Sum)
                 THEN "Option<" \o format_type(InnerOfRuleB(alg.Sum), type_names) \o ">"
                 ELSE "Sum(2 variants)"

\* Start and End both carry the empty Product: the generic rendering.
C6_Witness ==
    /\ pc = "done"
    /\ alg = SumOf(<<Variant(SomeName("Start"), Unit), Variant(SomeName("End"), Unit)>>)
    /\ out = "Sum(2 variants)"

\* C7: swapping the two variants of a Sum whose variants are named Some and
\* None does not change the string format_type returns, for all payload
\* types and every name map.
C7_SomeNoneOrderIrrelevant ==
    (pc = "done" /\ alg.tag = "Sum" /\ OptionRuleA(alg.Sum)) =>
        out = format_type(SumOf(<<alg.Sum.variants[2], alg.Sum.variants[1]>>),
                          type_names)

\* None comes first and carries data too; Some carries a named reference.
C7_Witness ==
    /\ pc = "done"
    /\ alg = SumOf(<<Variant(SomeName("None"), I64), Variant(SomeName("Some"), RefTo(0))>>)
    /\ 0 \in DOMAIN type_names
    /\ out = "Option<" \o type_names[0] \o ">"

\* C8: format_type on a Sum applies its rules in a fixed order: ScheduledAt
\* if that idiom matches, even when the Sum is optional too; otherwise
\* Option<format(inner)> if the optional idiom matches (Option<?> when no
\* inner type is extracted); otherwise Sum(<N> variants), N the number of
\* variants, with no variant expanded.
C8_SumRuleOrder ==
    (pc = "done" /\ alg.tag = "Sum") =>
        out = IF ScheduledAtShape(alg.Sum) THEN "ScheduledAt"
              ELSE IF OptionShape(alg.Sum)
              THEN LET inner == get_option_inner_type(alg.Sum)
                   IN  IF inner = <<>> THEN "Option<?>"
                       ELSE "Option<" \o format_type(inner[1], type_names) \o ">"
              ELSE "Sum(" \o ToString(Len(alg.Sum.variants)) \o " variants)"

\* Interval carries the empty Product and Time carries data: the Sum matches
\* both idioms and is formatted as ScheduledAt.
C8_Witness ==
    /\ pc = "done"
    /\ alg = SumOf(<<Variant(SomeName("Interval"), Unit), Variant(SomeName("Time"), I64)>>)
    /\ is_option_type(alg.Sum)
    /\ out = "ScheduledAt"

\* C9: format_type on a Product applies its rules in a fixed order: the
\* idiom's name if a well-known idiom matches; otherwise () for zero
\* elements; otherwise the tuple (T1, T2, ...) of the formatted element
\* types in element order when every element is unnamed; otherwise
\* Product(<N> fields), N the element count, with no field expanded.
C9_ProductRuleOrder ==
    (pc = "done" /\ alg.tag = "Product") =>
        out = IF IdiomOf(alg.Product) # <<>> THEN IdiomOf(alg.Product)[1]
              ELSE IF Len(alg.Product.elements) = 0 THEN "()"
              ELSE IF NameSet(alg.Product.elements) = {NoName}
              THEN "(" \o Join(FormattedElements(alg.Product), ", ") \o ")"
              ELSE "Product(" \o ToString(Len(alg.Product.elements)) \o " fields)"

\* An unnamed element followed by a named one: not a tuple.
C9_Witness ==
    /\ pc = "done"
    /\ alg = ProductOf(<<Element(NoName, I64), Element(SomeName("id"), RefTo(0))>>)
    /\ out = "Product(2 fields)"

\* C10: the index-to-name map maps an index i to the name of the last
\* NamedType entry whose ty is i, holds exactly the indices that occur as
\* some entry's ty, and is built, without failing, for every list, also
\* when several entries share an index.
C10_LastWriteWins ==
    /\ pc = "decoded" => ENABLED ExtractNames
    /\ pc # "decoded" =>
          /\ DOMAIN type_names = {types[k].ty : k \in 1..Len(types)}
          /\ \A i \in DOMAIN type_names : type_names[i] = LastNameOf(i)

\* Index 0 is named User, then Item: the map holds Item.
C10_Witness ==
    /\ pc = "named"
    /\ types = <<NamedType("User", 0), NamedType("Item", 0), NamedType("User", 1)>>
    /\ type_names[0] = "Item"
    /\ type_names[1] = "User"

\* What holds of every state of the running formatter: an activation can
\* always call or return, the stack is no deeper than the type is nested,
\* an activation on a Ref has no call to make and returns the Ref's name
\* or placeholder, and the string returned at the end is that of
\* format_type.
C1_Progress ==
    /\ pc = "formatting" => stack # <<>> /\ ENABLED (Descend \/ Return)
    /\ Len(stack) <= Depth(alg)
    /\ \A k \in 1..Len(stack) :
          stack[k].t.tag = "Ref" =>
              /\ stack[k].todo = <<>>
              /\ format_type_result(stack[k].t, stack[k].rets, type_names)
                    = RefString(stack[k].t.Ref)
    /\ pc = "done" =>
          /\ stack = <<>>
          /\ out = format_type(alg, type_names)
          /\ alg.tag = "Ref" => out = RefString(alg.Ref)

\* Every step of the running formatter lowers the ranking function.
C1_Decrease ==
    pc = "formatting" =>
        /\ pc' \in {"formatting", "done"}
        /\ Measure(stack') < Measure(stack)

\* C1: format_type terminates on every type and name map, whatever the
\* typespace holds: the running formatter reaches its return, each of its
\* steps lowers a ranking function over the call stack and no activation
\* is ever stuck; an activation on Ref(i) makes no recursive call (it never
\* descends into typespace entry i), and what is returned for Ref(i) is
\* name_map[i] when i is a key of the name map and Type_<i> otherwise.
C1_FormatTerminates ==
    []C1_Progress /\ [][C1_Decrease]_vars /\ <>(pc = "done")

\* The formatter has returned Type_0 for each Ref(0) of the tuple (Ref(0)),
\* which is typespace entry 0 itself, index 0 having no name.
C1_Witness ==
    /\ pc = "done"
    /\ stack = <<>>
    /\ typespace # <<>>
    /\ typespace[1] = ProductOf(<<Element(NoName, RefTo(0))>>)
    /\ alg = typespace[1]
    /\ 0 \notin DOMAIN type_names
    /\ out = "(Type_0)"

\* C17: whenever is_option_type(sum) is true, get_option_inner_type(sum)
\* returns an inner type, so format_type never returns the string Option<?>
\* for a Sum.
C17_OptionInnerAlwaysFound ==
    /\ (alg.tag = "Sum" /\ is_option_type(alg.Sum))
           => get_option_inner_type(alg.Sum) # <<>>
    /\ (pc = "done" /\ alg.tag = "Sum") => out # "Option<?>"

\* A Sum recognised by its names alone, both variants being unit variants,
\* has been formatted with the payload of Some as its inner type.
C17_Witness ==
    /\ pc = "done"
    /\ alg = SumOf(<<Variant(SomeName("None"), Unit), Variant(SomeName("Some"), Unit)>>)
    /\ is_option_type(alg.Sum)
    /\ get_option_inner_type(alg.Sum) = <<Unit>>
    /\ out = "Option<()>"

(***************************************************************************)
(* Claims on the query views.                                              *)
(***************************************************************************)
\* What the view has printed: the lines after those of the fetch.
ViewLines ==
    SelectSeq(printed, LAMBDA l : l.kind \notin {"Fetching schema from:", "Fetched"})

\* display_schema_pretty has returned.
Rendered == pc \in {"rendered", "exit"} /\ views # <<>>

\* The tables whose whole name is the query up to the case of its letters.
TablesNamed(query) ==
    {i \in 1..Len(tables) : to_lowercase(tables[i].name) = to_lowercase(query)}

\* C11: the single-table lookup selects a table iff its whole name equals
\* the query ignoring the case of the (ASCII) letters, a proper prefix not
\* being a match; on a match the table view is shown, with the primary-key
\* list only when it is non-empty; on no match the not-found message
\* followed by the names of all tables is printed, and nothing else.
C11_SingleTableLookup ==
    (Rendered /\ views = <<"display_single_table">>) =>
        LET query == args.table[1]
            lines == ViewLines
        IN  IF TablesNamed(query) = {}
            THEN lines = <<Line("Table not found", <<query>>),
                           Line("Available tables:", <<>>)>>
                         \o [i \in 1..Len(tables) |-> Line("-", <<tables[i].name>>)]
            ELSE \E i \in TablesNamed(query) :
                    /\ lines[1] = Line("TABLE:", <<tables[i].name>>)
                    /\ lines[2].kind = "Type:"
                    /\ \A k \in 1..Len(lines) :
                           lines[k].kind \in {"TABLE:", "Type:", "Fields", "field",
                                              "Primary Key:"}
                    /\ (tables[i].primary_key # <<>>) <=>
                           (\E k \in 1..Len(lines) : lines[k].kind = "Primary Key:")
                    /\ (tables[i].primary_key # <<>>) =>
                           lines[Len(lines)] =
                               Line("Primary Key:",
                                    [k \in 1..Len(tables[i].primary_key) |->
                                        ToString(tables[i].primary_key[k])])

\* The query USER over the tables users and User: users, of which USER is
\* a proper prefix up to case, is passed over and User is shown with its
\* primary key.
C11_Witness ==
    /\ Rendered
    /\ views = <<"display_single_table">>
    /\ args.table = <<"USER">>
    /\ tables = <<TableInfo("users", 0, <<0>>), TableInfo("User", 1, <<0, 1>>)>>
    /\ ViewLines[1] = Line("TABLE:", <<"User">>)
    /\ ViewLines[Len(ViewLines)] = Line("Primary Key:", <<"0", "1">>)

\* The names listed among the type entries of the search view or of the
\* full dump.
TypeEntryNames ==
    {ViewLines[k].values[1] :
        k \in {j \in 1..Len(ViewLines) :
                  ViewLines[j].kind \in {"enum", "struct", "SpacetimeDB type"}}}

\* The typespace indices that are the product_type_ref of a table.
RowTypeRefs == {tables[i].product_type_ref : i \in 1..Len(tables)}

\* The entry at the index is a Product or a Sum.
ResolvesToProductOrSum(idx) ==
    /\ idx < Len(typespace)
    /\ typespace[idx + 1].tag \in {"Product", "Sum"}

\* C12: in the substring search and in the full dump, a named type whose
\* index is the product_type_ref of any table, matching the search or not,
\* is never listed among the type entries, and every other named type that
\* satisfies the view's condition (for the search, its name contains the
\* pattern case-insensitively) and resolves to a Product or Sum entry is
\* listed.
C12_RowTypesNotListed ==
    (Rendered /\ views \in {<<"display_search_results">>, <<"everything">>}) =>
        \A idx \in DOMAIN type_names :
            /\ idx \in RowTypeRefs => type_names[idx] \notin TypeEntryNames
            /\ ( /\ idx \notin RowTypeRefs
                 /\ views = <<"display_search_results">> =>
                        str_contains(to_lowercase(type_names[idx]),
                                     to_lowercase(args.search[1]))
                 /\ ResolvesToProductOrSum(idx) )
               => type_names[idx] \in TypeEntryNames

\* The search for user over the table users, whose row type is UserRow,
\* and the struct UserSettings lists users and UserSettings, not UserRow.
C12_Witness ==
    /\ Rendered
    /\ views = <<"display_search_results">>
    /\ args.search = <<"user">>
    /\ tables = <<TableInfo("users", 0, <<0>>)>>
    /\ types = <<NamedType("UserRow", 0), NamedType("UserSettings", 1)>>
    /\ typespace = <<RowDef, SettingsDef>>
    /\ ViewLines = <<Line("SEARCH RESULTS FOR:", <<"user">>),
                     Line("TABLES:", <<>>),
                     Line("table", <<"users", "UserRow">>),
                     Line("OTHER TYPES:", <<>>),
                     Line("struct", <<"UserSettings", "2">>)>>

\* The type query found no name: the view printed the not-found message
\* and the heading of the suggestions.
Unmatched ==
    /\ Rendered
    /\ views = <<"display_single_type">>
    /\ Len(ViewLines) >= 2
    /\ ViewLines[1] = Line("Type not found", args.type_filter)
    /\ ViewLines[2] = Line("Did you mean one of these?", <<>>)

\* The names printed under the heading, in the order printed.
Suggestions == [k \in 1..(Len(ViewLines) - 2) |-> ViewLines[k + 2].values[1]]

\* The condition under which a name is suggested for a search term.
SuggestionCondition(name, term) ==
    LET n == to_lowercase(name)
        t == to_lowercase(term)
        first_three == IF Len(t) < 3 THEN t ELSE SubSeq(t, 1, 3)
    IN  \/ str_contains(n, t)
        \/ str_contains(t, n)
        \/ (Len(first_three) <= Len(n) /\ SubSeq(n, 1, Len(first_three)) = first_three)

\* The named types that satisfy the condition.
Suggestible ==
    {idx \in DOMAIN type_names :
        SuggestionCondition(type_names[idx], args.type_filter[1])}

RECURSIVE AscendingOrder(_)
AscendingOrder(S) ==
    IF S = {} THEN <<>>
    ELSE LET least == CHOOSE x \in S : \A y \in S : x <= y
         IN  <<least>> \o AscendingOrder(S \ {least})

\* C18: the suggestion list printed for an unmatched type query is
\* determined by the named types and the search term alone: a run prints
\* what the run that enumerates the same name map in ascending order of
\* its keys prints, also when more than 5 named types satisfy the
\* suggestion condition.
C18_SuggestionsDetermined ==
    Unmatched =>
        ViewLines = display_single_type(SatsSchema(typespace, tables, types),
                                        type_names, args.type_filter[1],
                                        AscendingOrder(DOMAIN type_names))

\* The named types whose name is the query up to the case of its letters.
TypesNamed(query) ==
    {idx \in DOMAIN type_names :
        to_lowercase(type_names[idx]) = to_lowercase(query)}

\* The tag of the typespace entry at the index, Missing past the end.
EntryTag(idx) == IF idx < Len(typespace) THEN typespace[idx + 1].tag ELSE "Missing"

\* C14: every single-type query produces one of four outcomes: the struct
\* view when the query equals a named type's name ignoring case and the
\* entry at its index is a Product; the enum view when that entry is a Sum;
\* the report that it is not a struct or enum in every other case where the
\* name matches; the not-found message followed by the suggestion list
\* when no named type matches.  No single-type query ends without one of
\* these outputs.
C14_FourOutcomes ==
    (Rendered /\ views = <<"display_single_type">>) =>
        LET query == args.type_filter[1]
        IN  /\ ViewLines # <<>>
            /\ IF TypesNamed(query) = {}
               THEN /\ Len(ViewLines) >= 2
                    /\ ViewLines[1] = Line("Type not found", <<query>>)
                    /\ ViewLines[2] = Line("Did you mean one of these?", <<>>)
               ELSE \E idx \in TypesNamed(query) :
                       CASE EntryTag(idx) = "Product" ->
                               ViewLines[1] = Line("STRUCT:", <<type_names[idx]>>)
                         [] EntryTag(idx) = "Sum" ->
                               ViewLines[1] = Line("ENUM:", <<type_names[idx]>>)
                         [] OTHER ->
                               ViewLines = <<Line("is not a struct or enum", <<query>>)>>

\* fetch_schema has returned.
Exited == pc = "exit"

\* An invocation that ended in an error rendered no view; a pretty
\* invocation that ended without rendering a view ended in an error; an
\* invocation that rendered a view ended with Ok.
C15_ErrorsBeforeViews ==
    /\ result = <<"Err">> => (views = <<>> /\ ViewLines = <<>>)
    /\ (Exited /\ args.format = "Pretty" /\ views = <<>>) => result = <<"Err">>
    /\ Exited => result \in {<<"Ok">>, <<"Err">>}
    /\ (Exited /\ views # <<>>) => result = <<"Ok">>

\* C15: in an invocation of fetch_schema a failed fetch or, in pretty
\* mode, a failed decode of the document ends the invocation with an error
\* before any query view is rendered; once the document is decoded every
\* query, also one that matches nothing, prints a message and the
\* invocation ends successfully.
C15_FatalOrMessage ==
    /\ C15_ErrorsBeforeViews
    /\ Rendered => ViewLines # <<>>

\* The view the filters select, in the order table, type, enum, search.
SelectedView(a) ==
    IF a.table # <<>> THEN "display_single_table"
    ELSE IF a.type_filter # <<>> THEN "display_single_type"
    ELSE IF a.enum_filter # <<>> THEN "display_single_enum"
    ELSE IF a.search # <<>> THEN "display_search_results"
    ELSE "everything"

\* The lines display_schema_pretty prints for the filters of a, the name
\* map enumerated in the given order.
LinesFor(a, order) ==
    LET rendered ==
            display_schema_pretty(SatsSchema(typespace, tables, types), type_names,
                                  a.table, a.type_filter, a.enum_filter, a.search, order)
    IN  Flatten([i \in 1..Len(rendered) |-> rendered[i].lines])

\* C16: display_schema_pretty renders exactly one view per call for every
\* combination of the four optional filters: the table view if a table
\* filter is present, else the type view, else the enum view, else the
\* search view, else the full dump.  A search pattern given together with
\* a table, type or enum filter, which the command line accepts, is
\* ignored without any message: what is printed is what the same call
\* without the pattern prints.
C16_OneViewByPriority ==
    /\ \A a \in QueryArgs :
           (a.search # <<>> /\ Cardinality({f \in {"table", "type_filter", "enum_filter"} :
                                               a[f] # <<>>}) <= 1)
               => cli_accepts(a)
    /\ Rendered =>
           /\ views = <<SelectedView(args)>>
           /\ (args.search # <<>> /\ SelectedView(args) # "display_search_results") =>
                  /\ \A k \in 1..Len(ViewLines) :
                         ViewLines[k].kind \notin {"SEARCH RESULTS FOR:", "No matches found"}
                  /\ \E order \in Enumerations(DOMAIN type_names) :
                         ViewLines = LinesFor([args EXCEPT !.search = <<>>], order)

\* The table filter USER with the search pattern user over the table
\* users: the table view alone is rendered, and it reports that no table
\* is named USER; the search, which would find users, is not run.
C16_Witness ==
    /\ Rendered
    /\ args.table = <<"USER">>
    /\ args.search = <<"user">>
    /\ tables = <<TableInfo("users", 0, <<0>>)>>
    /\ views = <<"display_single_table">>
    /\ ViewLines = <<Line("Table not found", <<"USER">>),
                     Line("Available tables:", <<>>),
                     Line("-", <<"users">>)>>

====
